---- MODULE Spec2Model ----
(***************************************************************************)
(* Search-provider failover router of easyclaw (core/search_adapters.py):  *)
(* the JSON config store and its setters, the two chain resolvers, the     *)
(* in-memory cooldown maps and the two failover entry points.              *)
(***************************************************************************)
EXTENDS Integers, Sequences, FiniteSets, TLC

VARIABLES
    file,                \* the config file at `path`: absent, corrupt, or a JSON object
    cooldownUntil,       \* _COOLDOWN_UNTIL: adapter id -> expiry (legacy entry point)
    sourceCooldownUntil, \* _SOURCE_COOLDOWN_UNTIL: source id -> expiry (unified entry point)
    clock,               \* time.time()
    pc,                  \* "idle" | "walking" | "returned" | "raised"
    entry,               \* entry point of the current call: "none" | "legacy" | "unified"
    cfg,                 \* the config loaded at the start of the call
    chain,               \* the chain resolved at the start of the call
    idx,                 \* number of chain candidates the loop has gone through
    now,                 \* `now` taken at the start of the call
    errors,              \* the call's `errors` list
    outcome,             \* what the call returned or raised
    invoked,             \* history: adapters the call reached over the network
    lastStep,            \* history: what the loop did with the latest candidate
    lastOp,              \* history: the latest setter call and its return value
    configuredUntil,     \* history: failure time + cooldownSeconds stored in the file
    nSetters,            \* number of setter calls so far
    nCalls,              \* number of failover calls so far
    writers,             \* processes that each run one load, mutate, save sequence on `path`
    payload              \* the JSON object a provider's endpoint answered with

vars == <<file, cooldownUntil, sourceCooldownUntil, clock, pc, entry, cfg, chain, idx,
          now, errors, outcome, invoked, lastStep, lastOp, configuredUntil, nSetters, nCalls,
          writers, payload>>

callVars == <<pc, entry, cfg, chain, idx, now, errors, outcome, invoked, lastStep>>

\* ---------------------------------------------------------------- bounds
MaxTime == 60
MaxSetterCalls == 1
MaxCalls == 2

\* advances of the wall clock between two steps
TickSteps == {60}

\* ---------------------------------------------------------------- constants
ADAPTER_SPECS == {"zhipu", "serper", "tavily"}

defaultBaseUrl(pid) ==
    CASE pid = "zhipu" -> "https://open.bigmodel.cn/api/paas/v4/web_search"
      [] pid = "serper" -> "https://google.serper.dev/search"
      [] pid = "tavily" -> "https://api.tavily.com/search"

OfficialNames == {"brave", "perplexity", "grok", "gemini", "kimi"}

OFFICIAL_SEARCH_SOURCES == {"official:" \o n : n \in OfficialNames}

DefaultTopK == 5
MinTopK == 1
MaxTopK == 20
DefaultCooldownSeconds == 60
MinCooldownSeconds == 5
MaxCooldownSeconds == 3600

\* ---------------------------------------------------------------- strings
\* text after "adapter:" that occurs in the model: the adapter ids and one unknown id
PidTexts == ADAPTER_SPECS \cup {"bogus"}

\* str(x or "").strip().lower() on the texts the model passes in
StripLower(s) ==
    CASE s = " Serper " -> "serper"
      [] s = "Adapter:Tavily" -> "adapter:tavily"
      [] OTHER -> s

\* sid.startswith("adapter:")
StartsWithAdapter(sid) == \E p \in PidTexts : sid = "adapter:" \o p

\* sid.split(":", 1)[1] of a sid that starts with "adapter:"
AdapterPart(sid) == CHOOSE p \in PidTexts : sid = "adapter:" \o p

\* sid.startswith("official:")
StartsWithOfficial(sid) == \E n \in OfficialNames : sid = "official:" \o n

Range(s) == {s[i] : i \in 1..Len(s)}

Max(a, b) == IF a >= b THEN a ELSE b
Min(a, b) == IF a <= b THEN a ELSE b
Clamp(lo, hi, v) == Max(lo, Min(hi, v))

\* the same loop without its "not in" test
AppendAll(acc, items) == acc \o items

\* the loop "for item in items: if item not in acc: acc.append(item)"
RECURSIVE AppendDistinct(_, _)
AppendDistinct(acc, items) ==
    IF items = <<>> THEN acc
    ELSE AppendDistinct(IF Head(items) \in Range(acc) THEN acc ELSE Append(acc, Head(items)),
                        Tail(items))

\* [str(x or "").strip().lower() for x in items]
StripLowerAll(items) == [i \in 1..Len(items) |-> StripLower(items[i])]

NonEmpty(s) == s # ""
IsAdapterId(s) == s \in ADAPTER_SPECS
IsSourceId(s) == s \in OFFICIAL_SEARCH_SOURCES \/ StartsWithAdapter(s)
AdapterSource(pid) == "adapter:" \o pid

\* [f"adapter:{x}" for x in pids]
AdapterSources(pids) == [i \in 1..Len(pids) |-> AdapterSource(pids[i])]

\* ---------------------------------------------------------------- config store
DefaultProvider(pid) ==
    [enabled |-> FALSE, apiKey |-> "", baseUrl |-> defaultBaseUrl(pid), model |-> "",
     topK |-> DefaultTopK]

default_config ==
    [active |-> "", primary |-> "", fallbacks |-> <<>>,
     primarySource |-> "", fallbackSources |-> <<>>, activeSource |-> "",
     providers |-> [pid \in ADAPTER_SPECS |-> DefaultProvider(pid)]]

FileAbsent == [kind |-> "absent"]
FileCorrupt == [kind |-> "corrupt"]
FileOf(data) == [kind |-> "ok", data |-> data]

\* outcomes of one open-and-write of the file
SaveOutcomes == {"ok", "open_failed", "write_failed"}

\* a save without its try/except: the I/O error reaches the caller
SaveRaising(c, f, so) ==
    CASE so = "ok" -> [file |-> FileOf(c), ret |-> TRUE, raised |-> FALSE]
      [] so = "open_failed" -> [file |-> f, ret |-> FALSE, raised |-> TRUE]
      [] so = "write_failed" -> [file |-> FileCorrupt, ret |-> FALSE, raised |-> TRUE]

\* open(path, "w") then json.dump: a failed open leaves the file as it was, a failed
\* write leaves a truncated file; every exception is turned into False
\* (raised is never TRUE)
save_search_adapters(c, f, so) ==
    CASE so = "ok" -> [file |-> FileOf(c), ret |-> TRUE, raised |-> FALSE]
      [] so = "open_failed" -> [file |-> f, ret |-> FALSE, raised |-> FALSE]
      [] so = "write_failed" -> [file |-> FileCorrupt, ret |-> FALSE, raised |-> FALSE]

\* the merge of one stored provider entry into the default one: five fields are
\* copied, topK is clamped, any other stored key (cooldownSeconds) is not copied
MergeProvider(src) ==
    [enabled |-> src.enabled, apiKey |-> src.apiKey, baseUrl |-> src.baseUrl,
     model |-> src.model, topK |-> Clamp(MinTopK, MaxTopK, src.topK)]

\* the merge of a stored JSON object into the default skeleton
MergeConfig(data) ==
    [active |-> data.active,
     primary |-> IF data.primary # "" THEN data.primary ELSE data.active,
     activeSource |-> data.activeSource,
     primarySource |-> data.primarySource,
     fallbackSources |->
         AppendDistinct(<<>>, SelectSeq(StripLowerAll(data.fallbackSources), NonEmpty)),
     fallbacks |->
         AppendDistinct(<<>>, SelectSeq(StripLowerAll(data.fallbacks), IsAdapterId)),
     providers |-> [pid \in ADAPTER_SPECS |-> MergeProvider(data.providers[pid])]]

\* a load that returns the defaults for an absent or unreadable file without writing them
LoadWithoutDefaultsWrite(f, so) ==
    IF f.kind = "ok"
    THEN [cfg |-> MergeConfig(f.data), file |-> f]
    ELSE [cfg |-> default_config, file |-> f]

\* load_search_adapters: the config returned and the file left behind; `so` is the
\* outcome of the write of the defaults when the file is absent or unreadable
load_search_adapters(f, so) ==
    IF f.kind = "ok"
    THEN [cfg |-> MergeConfig(f.data), file |-> f]
    ELSE [cfg |-> default_config, file |-> save_search_adapters(default_config, f, so).file]

\* ---------------------------------------------------------------- setters
set_active_provider(provider_id, f, lo, so) ==
    LET ld == load_search_adapters(f, lo)
        pid == StripLower(provider_id)
    IN  IF pid # "" /\ pid \notin ADAPTER_SPECS
        THEN [file |-> ld.file, ret |-> FALSE, raised |-> FALSE]
        ELSE save_search_adapters([ld.cfg EXCEPT !.active = pid, !.primary = pid], ld.file, so)

set_primary_provider(provider_id, f, lo, so) ==
    LET pid == StripLower(provider_id)
        ld == load_search_adapters(f, lo)
        c1 == [ld.cfg EXCEPT !.primary = pid, !.active = pid]
        c2 == IF pid # ""
              THEN [c1 EXCEPT !.primarySource = AdapterSource(pid),
                              !.activeSource = AdapterSource(pid)]
              ELSE c1
    IN  IF pid # "" /\ pid \notin ADAPTER_SPECS
        THEN [file |-> f, ret |-> FALSE, raised |-> FALSE]
        ELSE save_search_adapters(c2, ld.file, so)

set_fallback_providers(provider_ids, f, lo, so) ==
    LET ld == load_search_adapters(f, lo)
        normalized == AppendDistinct(<<>>, SelectSeq(StripLowerAll(provider_ids), IsAdapterId))
        c1 == [ld.cfg EXCEPT !.fallbacks = normalized]
        c2 == IF normalized # <<>>
              THEN [c1 EXCEPT !.fallbackSources = AdapterSources(normalized)]
              ELSE c1
    IN  save_search_adapters(c2, ld.file, so)

set_primary_source(source_id, f, lo, so) ==
    LET sid == StripLower(source_id)
        ld == load_search_adapters(f, lo)
        c1 == [ld.cfg EXCEPT !.primarySource = sid, !.activeSource = sid]
        c2 == IF StartsWithAdapter(sid)
              THEN [c1 EXCEPT !.primary = AdapterPart(sid), !.active = AdapterPart(sid)]
              ELSE c1
    IN  IF sid # "" /\ ~(sid \in OFFICIAL_SEARCH_SOURCES \/ StartsWithAdapter(sid))
        THEN [file |-> f, ret |-> FALSE, raised |-> FALSE]
        ELSE save_search_adapters(c2, ld.file, so)

set_fallback_sources(source_ids, f, lo, so) ==
    LET ld == load_search_adapters(f, lo)
        normalized == AppendDistinct(<<>>, SelectSeq(StripLowerAll(source_ids), IsSourceId))
    IN  save_search_adapters([ld.cfg EXCEPT !.fallbackSources = normalized], ld.file, so)

\* the keys of `updates` applied to one provider entry
ApplyUpdates(p, updates) ==
    LET has(k) == k \in DOMAIN updates
        p1 == IF has("enabled") THEN [p EXCEPT !.enabled = updates.enabled] ELSE p
        p2 == IF has("apiKey") THEN [p1 EXCEPT !.apiKey = updates.apiKey] ELSE p1
        p3 == IF has("baseUrl")
              THEN [p2 EXCEPT !.baseUrl = IF updates.baseUrl # "" THEN updates.baseUrl ELSE @]
              ELSE p2
        p4 == IF has("model") THEN [p3 EXCEPT !.model = updates.model] ELSE p3
        p5 == IF has("topK")
              THEN [p4 EXCEPT !.topK = Clamp(MinTopK, MaxTopK, updates.topK)]
              ELSE p4
    IN  IF has("cooldownSeconds")
        THEN p5 @@ ("cooldownSeconds" :>
                      Clamp(MinCooldownSeconds, MaxCooldownSeconds, updates.cooldownSeconds))
        ELSE p5

update_provider(provider_id, updates, f, lo, so) ==
    LET pid == StripLower(provider_id)
        ld == load_search_adapters(f, lo)
    IN  IF pid \notin ADAPTER_SPECS
        THEN [file |-> f, ret |-> FALSE, raised |-> FALSE]
        ELSE save_search_adapters(
                 [ld.cfg EXCEPT !.providers[pid] = ApplyUpdates(@, updates)], ld.file, so)

\* ---------------------------------------------------------------- adapters
\* what the provider's HTTP endpoint answers: a result page or an error, whose text is
\* str(HTTPError) or str(URLError)
NetOutcomes == {"ok", "HTTP Error 429: Too Many Requests", "<urlopen error timed out>"}

\* the normalized result rows of one successful call, tagged with their source
ResultsOf(source) ==
    <<[title |-> "ok", url |-> "https://ok.com", snippet |-> "s", source |-> source]>>

\* search_with_provider: `net` is the endpoint's answer; `network` tells whether the
\* request was sent at all
search_with_provider(provider_id, f, lo, net) ==
    LET pid == StripLower(provider_id)
        ld == load_search_adapters(f, lo)
        provider == ld.cfg.providers[pid]
    IN  IF pid \notin ADAPTER_SPECS
        THEN [file |-> f, ok |-> FALSE, network |-> FALSE, results |-> <<>>,
              err |-> "unsupported provider: " \o provider_id]
        ELSE IF provider.apiKey = ""
        THEN [file |-> ld.file, ok |-> FALSE, network |-> FALSE, results |-> <<>>,
              err |-> "missing api key"]
        ELSE IF provider.baseUrl = ""
        THEN [file |-> ld.file, ok |-> FALSE, network |-> FALSE, results |-> <<>>,
              err |-> "missing base url"]
        ELSE IF net = "ok"
        THEN [file |-> ld.file, ok |-> TRUE, network |-> TRUE, results |-> ResultsOf(pid),
              err |-> ""]
        ELSE [file |-> ld.file, ok |-> FALSE, network |-> TRUE, results |-> <<>>,
              err |-> net]

\* search_with_official_source: `key` is what _official_brave_api_key finds in the host
\* application's config or in the environment
search_with_official_source(source_id, f, key, net) ==
    LET sid == StripLower(source_id)
    IN  IF sid # "official:brave"
        THEN [file |-> f, ok |-> FALSE, network |-> FALSE, results |-> <<>>,
              err |-> "unsupported official source for failover: " \o sid]
        ELSE IF key = ""
        THEN [file |-> f, ok |-> FALSE, network |-> FALSE, results |-> <<>>,
              err |-> "official:brave missing api key"]
        ELSE IF net = "ok"
        THEN [file |-> f, ok |-> TRUE, network |-> TRUE, results |-> ResultsOf(sid),
              err |-> ""]
        ELSE [file |-> f, ok |-> FALSE, network |-> TRUE, results |-> <<>>, err |-> net]

\* ---------------------------------------------------------------- cooldown tracker
\* str(exc).lower() on the error texts of the model
Lower(text) ==
    CASE text = "HTTP Error 429: Too Many Requests" -> "http error 429: too many requests"
      [] OTHER -> text

\* the last two markers are the two-character Chinese words for "rate limiting" and
\* "quota", written here by their code points
patterns == {"429", "rate limit", "too many requests", "quota", "U+9650U+6D41", "U+914DU+989D"}

\* `p in text` on the lowered error texts of the model
Contains(text, p) ==
    /\ text = "http error 429: too many requests"
    /\ p \in {"429", "too many requests"}

\* a classifier that takes every error for a rate limit
IsAnyError(text) == TRUE

is_rate_limit_error(text) == \E p \in patterns : Contains(Lower(text), p)

provider_cooldown_seconds(provider_cfg) ==
    LET stored == IF "cooldownSeconds" \in DOMAIN provider_cfg
                  THEN provider_cfg["cooldownSeconds"] ELSE DefaultCooldownSeconds
        v == IF stored # 0 THEN stored ELSE DefaultCooldownSeconds
    IN  Clamp(MinCooldownSeconds, MaxCooldownSeconds, v)

\* providers.get(pid, {}) of the loaded config
ProviderCfg(c, pid) == IF pid \in DOMAIN c.providers THEN c.providers[pid] ELSE <<>>

source_cooldown_seconds(c, source_id) ==
    LET sid == StripLower(source_id)
    IN  IF StartsWithAdapter(sid)
        THEN provider_cooldown_seconds(ProviderCfg(c, AdapterPart(sid)))
        ELSE DefaultCooldownSeconds

\* d.get(id, 0.0)
GetOr0(d, id) == IF id \in DOMAIN d THEN d[id] ELSE 0

\* d[id] = v
Put(d, id, v) == (id :> v) @@ d

\* ---------------------------------------------------------------- chain resolver
\* a legacy resolver without the "in ADAPTER_SPECS" tests
ProviderChainUnfiltered(c) ==
    LET primary == StripLower(IF c.primary # "" THEN c.primary ELSE c.active)
    IN  AppendDistinct(IF primary # "" THEN <<primary>> ELSE <<>>,
                       SelectSeq(StripLowerAll(c.fallbacks), NonEmpty))

\* a unified resolver that never falls back on the legacy fields
SourceChainWithoutLegacy(c) ==
    LET primary == StripLower(c.primarySource)
    IN  AppendDistinct(IF primary # "" THEN <<primary>> ELSE <<>>,
                       SelectSeq(StripLowerAll(c.fallbackSources), NonEmpty))

provider_chain(c) ==
    LET primary == StripLower(IF c.primary # "" THEN c.primary ELSE c.active)
    IN  AppendDistinct(IF primary \in ADAPTER_SPECS THEN <<primary>> ELSE <<>>,
                       SelectSeq(StripLowerAll(c.fallbacks), IsAdapterId))

source_chain(c) ==
    LET stored == StripLower(c.primarySource)
        legacy == StripLower(IF c.primary # "" THEN c.primary ELSE c.active)
        primary == IF stored # "" THEN stored
                   ELSE IF legacy # "" THEN AdapterSource(legacy) ELSE ""
        fallbacks == IF c.fallbackSources # <<>> THEN c.fallbackSources
                     ELSE AdapterSources(SelectSeq(StripLowerAll(c.fallbacks), NonEmpty))
    IN  AppendDistinct(IF primary # "" THEN <<primary>> ELSE <<>>,
                       SelectSeq(StripLowerAll(fallbacks), NonEmpty))

\* ---------------------------------------------------------------- failover executor
\* " | ".join(records)
RECURSIVE Join(_)
Join(records) ==
    IF records = <<>> THEN ""
    ELSE IF Len(records) = 1 THEN Head(records)
    ELSE Head(records) \o " | " \o Join(Tail(records))

\* the i-th candidate of "for pid in chain"
Candidate(ch, i) == ch[i]

\* a loop that notes a success and goes on to the next candidate
PcAfterNoShortCircuit(kind, i, n) ==
    IF i < n THEN "walking"
    ELSE IF kind = "success" THEN "returned" ELSE "raised"

\* a loop that raises at the first candidate that does not succeed
PcAfterRaiseAtFirstFailure(kind, i, n) == IF kind = "success" THEN "returned" ELSE "raised"

\* where the loop stands after the i-th of n candidates: a success returns at once, a
\* skip or a failure goes on to the next candidate, and the end of the chain raises
PcAfter(kind, i, n) ==
    IF kind = "success" THEN "returned"
    ELSE IF i = n THEN "raised" ELSE "walking"

\* f"{id}:{reason}"
Record(id, reason) == id \o ":" \o reason

\* the comparison the other way round
IsCoolingDownInverted(until, t) == until < t

\* a test for the presence of an entry, whatever its expiry
IsCoolingDownOnceMarked(until, t) == until > 0

\* cooldown_until > now
IsCoolingDown(until, t) == until > t

\* cfg["active"] = pid
MarkProvider(c, pid) == [c EXCEPT !.active = pid]

\* only the legacy marker, as search_with_failover sets it
MarkAdapterSourceLegacyOnly(c, sid) == [c EXCEPT !.active = AdapterPart(sid)]

\* cfg["active"] = pid; cfg["activeSource"] = sid
MarkAdapterSource(c, sid) == [c EXCEPT !.active = AdapterPart(sid), !.activeSource = sid]

\* cfg["activeSource"] = sid
MarkOfficialSource(c, sid) == [c EXCEPT !.activeSource = sid]

\* what one pass of the loop did with candidate `id`; the fields are those of a pass
\* that sent no request and wrote nothing
Pass(kind, id, err) ==
    [kind |-> kind, id |-> id, err |-> err, record |-> Record(id, err),
     network |-> FALSE, searchOk |-> FALSE, save |-> "none", results |-> <<>>,
     cfg |-> cfg, file |-> file, rate |-> FALSE, seconds |-> 0]

\* errors.append(f"{id}:{reason}"); continue
Skipped(id, reason) == Pass("skipped", id, reason)

\* an except clause that also clears the stored active marker
FailedClearingActive(id, sr, seconds) ==
    [Pass("failed", id, sr.err) EXCEPT
        !.network = sr.network, !.file = FileOf([cfg EXCEPT !.active = ""]),
        !.rate = is_rate_limit_error(sr.err), !.seconds = seconds]

\* the except clause: `sr` is the search that raised, `seconds` the cooldown to apply
\* when the error is rate-limit-classified
Failed(id, sr, seconds) ==
    [Pass("failed", id, sr.err) EXCEPT
        !.network = sr.network, !.file = sr.file,
        !.rate = is_rate_limit_error(sr.err), !.seconds = seconds]

\* the body of the try: the search, and on success the active marker and its save; an
\* exception of either is what the except clause catches
Attempt(id, sr, marked, so, seconds) ==
    LET sv == save_search_adapters(marked, sr.file, so)
    IN  IF ~sr.ok THEN Failed(id, sr, seconds)
        ELSE IF sv.raised
        THEN [Pass("failed", id, "save failed") EXCEPT
                 !.network = TRUE, !.searchOk = TRUE, !.save = "failed",
                 !.cfg = marked, !.file = sv.file,
                 !.rate = is_rate_limit_error("save failed"), !.seconds = seconds]
        ELSE [Pass("success", id, "") EXCEPT
                 !.network = TRUE, !.searchOk = TRUE,
                 !.save = IF sv.ret THEN "ok" ELSE "failed",
                 !.results = sr.results, !.cfg = marked, !.file = sv.file]

\* a pass that tests the cooldown before the enabled flag and the key
LegacyStepCooldownFirst(pid, lo, net, so) ==
    LET p_cfg == ProviderCfg(cfg, pid)
    IN  IF IsCoolingDown(GetOr0(cooldownUntil, pid), now) THEN Skipped(pid, "cooldown")
        ELSE IF ~p_cfg.enabled THEN Skipped(pid, "disabled")
        ELSE IF p_cfg.apiKey = "" THEN Skipped(pid, "missing-key")
        ELSE Attempt(pid, search_with_provider(pid, file, lo, net), MarkProvider(cfg, pid),
                     so, provider_cooldown_seconds(p_cfg))

\* one pass of the loop of search_with_failover
LegacyStep(pid, lo, net, so) ==
    LET p_cfg == ProviderCfg(cfg, pid)
    IN  IF ~p_cfg.enabled THEN Skipped(pid, "disabled")
        ELSE IF p_cfg.apiKey = "" THEN Skipped(pid, "missing-key")
        ELSE IF IsCoolingDown(GetOr0(cooldownUntil, pid), now) THEN Skipped(pid, "cooldown")
        ELSE Attempt(pid, search_with_provider(pid, file, lo, net), MarkProvider(cfg, pid),
                     so, provider_cooldown_seconds(p_cfg))

\* one pass of the loop of search_with_unified_failover
UnifiedStep(sid, lo, key, net, so) ==
    IF IsCoolingDown(GetOr0(sourceCooldownUntil, sid), now) THEN Skipped(sid, "cooldown")
    ELSE IF StartsWithAdapter(sid)
    THEN Attempt(sid, search_with_provider(AdapterPart(sid), file, lo, net),
                 MarkAdapterSource(cfg, sid), so, source_cooldown_seconds(cfg, sid))
    ELSE IF StartsWithOfficial(sid)
    THEN Attempt(sid, search_with_official_source(sid, file, key, net),
                 MarkOfficialSource(cfg, sid), so, source_cooldown_seconds(cfg, sid))
    ELSE Failed(sid, [err |-> "invalid source", network |-> FALSE, file |-> file],
                source_cooldown_seconds(cfg, sid))

\* ---------------------------------------------------------------- history
NoStep == [id |-> "", kind |-> "none", err |-> "", save |-> "none"]
NoOutcome == [kind |-> "none"]
NoOp == [op |-> "none", unknown |-> FALSE, ret |-> TRUE]
NoWriters == [proc |-> <<>>, last |-> "none"]
NoPayload == <<>>

\* the cooldownSeconds stored in the file for the adapter behind `id`, 60 when none is
\* stored or the source is no adapter
ConfiguredCooldownSeconds(f, id) ==
    LET pid == IF StartsWithAdapter(id) THEN AdapterPart(id) ELSE id
    IN  IF /\ f.kind = "ok"
           /\ pid \in ADAPTER_SPECS
           /\ "cooldownSeconds" \in DOMAIN f.data.providers[pid]
        THEN f.data.providers[pid]["cooldownSeconds"]
        ELSE DefaultCooldownSeconds

UnknownAdapterId(s) == StripLower(s) # "" /\ StripLower(s) \notin ADAPTER_SPECS
UnknownSourceId(s) ==
    /\ StripLower(s) # ""
    /\ StripLower(s) \notin OFFICIAL_SEARCH_SOURCES \cup {AdapterSource(p) : p \in ADAPTER_SPECS}

\* ---------------------------------------------------------------- inputs
\* the write of the defaults happens only when the file is absent or unreadable
LoadOutcomes(f) == IF f.kind = "ok" THEN {"ok"} ELSE SaveOutcomes

ActiveIdInputs == {"tavily", "bogus"}
PrimaryIdInputs == {"", " Serper ", "bogus"}
FallbackProviderInputs == {<<>>, <<"bogus", "tavily">>}
SourceIdInputs == {"", "official:brave", "adapter:bogus"}
FallbackSourceInputs == {<<>>, <<"Adapter:Tavily", "bogus">>}
UpdateTargets == {"serper", "bogus"}
UpdateInputs ==
    {[enabled |-> TRUE, apiKey |-> "k"], [enabled |-> FALSE], [apiKey |-> ""],
     [cooldownSeconds |-> 90]}
OfficialKeys == {"", "bk"}

\* the file the tests build: serper and tavily enabled with a key, serper primary,
\* tavily fallback
SeededFile ==
    LET f1 == update_provider("serper", [enabled |-> TRUE, apiKey |-> "k"],
                              FileAbsent, "ok", "ok").file
        f2 == update_provider("tavily", [enabled |-> TRUE, apiKey |-> "k"], f1, "ok", "ok").file
        f3 == set_primary_provider("serper", f2, "ok", "ok").file
    IN  set_fallback_providers(<<"tavily">>, f3, "ok", "ok").file

InitFiles == {FileAbsent, SeededFile}

\* ---------------------------------------------------------------- the state machine
Init ==
    /\ file \in InitFiles
    /\ cooldownUntil = <<>>
    /\ sourceCooldownUntil = <<>>
    /\ clock = 0
    /\ pc = "idle"
    /\ entry = "none"
    /\ cfg = default_config
    /\ chain = <<>>
    /\ idx = 0
    /\ now = 0
    /\ errors = <<>>
    /\ outcome = NoOutcome
    /\ invoked = <<>>
    /\ lastStep = NoStep
    /\ lastOp = NoOp
    /\ configuredUntil = [e \in {"legacy", "unified"} |-> <<>>]
    /\ nSetters = 0
    /\ nCalls = 0
    /\ writers = NoWriters
    /\ payload = NoPayload

Tick ==
    \E d \in TickSteps :
        /\ clock + d <= MaxTime
        /\ clock' = clock + d
        /\ UNCHANGED <<file, cooldownUntil, sourceCooldownUntil, configuredUntil, lastOp,
                       nSetters, nCalls, writers, payload>>
        /\ UNCHANGED callVars

\* a setter call, from its load to its return
Setter(op, unknown, r) ==
    /\ pc # "walking"
    /\ nSetters < MaxSetterCalls
    /\ nSetters' = nSetters + 1
    /\ file' = r.file
    /\ lastOp' = [op |-> op, unknown |-> unknown, ret |-> r.ret]
    /\ pc' = "idle"
    /\ entry' = "none"
    /\ cfg' = default_config
    /\ chain' = <<>>
    /\ idx' = 0
    /\ now' = 0
    /\ errors' = <<>>
    /\ outcome' = NoOutcome
    /\ invoked' = <<>>
    /\ lastStep' = NoStep
    /\ UNCHANGED <<cooldownUntil, sourceCooldownUntil, clock, configuredUntil, nCalls, writers,
                   payload>>

SetActiveProvider ==
    \E p \in ActiveIdInputs, lo \in LoadOutcomes(file), so \in SaveOutcomes :
        Setter("set_active_provider", UnknownAdapterId(p), set_active_provider(p, file, lo, so))

SetPrimaryProvider ==
    \E p \in PrimaryIdInputs, lo \in LoadOutcomes(file), so \in SaveOutcomes :
        Setter("set_primary_provider", UnknownAdapterId(p), set_primary_provider(p, file, lo, so))

SetFallbackProviders ==
    \E ps \in FallbackProviderInputs, lo \in LoadOutcomes(file), so \in SaveOutcomes :
        Setter("set_fallback_providers", \E i \in 1..Len(ps) : UnknownAdapterId(ps[i]),
               set_fallback_providers(ps, file, lo, so))

SetPrimarySource ==
    \E s \in SourceIdInputs, lo \in LoadOutcomes(file), so \in SaveOutcomes :
        Setter("set_primary_source", UnknownSourceId(s), set_primary_source(s, file, lo, so))

SetFallbackSources ==
    \E ss \in FallbackSourceInputs, lo \in LoadOutcomes(file), so \in SaveOutcomes :
        Setter("set_fallback_sources", \E i \in 1..Len(ss) : UnknownSourceId(ss[i]),
               set_fallback_sources(ss, file, lo, so))

UpdateProvider ==
    \E p \in UpdateTargets, u \in UpdateInputs, lo \in LoadOutcomes(file), so \in SaveOutcomes :
        Setter("update_provider", StripLower(p) \notin ADAPTER_SPECS,
               update_provider(p, u, file, lo, so))

\* a head without the test for an empty chain: the loop runs over no candidate and
\* the raise after it reports no record
StartWithoutEmptyCheck(e, ld, ch, message) ==
    /\ pc # "walking"
    /\ nCalls < MaxCalls
    /\ nCalls' = nCalls + 1
    /\ file' = ld.file
    /\ entry' = e
    /\ cfg' = ld.cfg
    /\ chain' = ch
    /\ idx' = 0
    /\ now' = clock
    /\ errors' = <<>>
    /\ invoked' = <<>>
    /\ lastStep' = NoStep
    /\ pc' = IF ch = <<>> THEN "raised" ELSE "walking"
    /\ outcome' = IF ch = <<>>
                  THEN [kind |-> "error",
                        message |-> IF e = "legacy" THEN "all providers failed: "
                                    ELSE "all sources failed: "]
                  ELSE NoOutcome
    /\ lastOp' = NoOp
    /\ UNCHANGED <<cooldownUntil, sourceCooldownUntil, clock, configuredUntil, nSetters,
                   writers, payload>>

\* the head of a failover call: load, resolve the chain, raise when it is empty
Start(e, ld, ch, message) ==
    /\ pc # "walking"
    /\ nCalls < MaxCalls
    /\ nCalls' = nCalls + 1
    /\ file' = ld.file
    /\ entry' = e
    /\ cfg' = ld.cfg
    /\ chain' = ch
    /\ idx' = 0
    /\ now' = clock
    /\ errors' = <<>>
    /\ invoked' = <<>>
    /\ lastStep' = NoStep
    /\ pc' = IF ch = <<>> THEN "raised" ELSE "walking"
    /\ outcome' = IF ch = <<>> THEN [kind |-> "error", message |-> message] ELSE NoOutcome
    /\ lastOp' = NoOp
    /\ UNCHANGED <<cooldownUntil, sourceCooldownUntil, clock, configuredUntil, nSetters,
                   writers, payload>>

StartLegacy ==
    \E lo \in LoadOutcomes(file) :
        LET ld == load_search_adapters(file, lo)
        IN  Start("legacy", ld, provider_chain(ld.cfg), "no primary/fallback provider configured")

StartUnified ==
    \E lo \in LoadOutcomes(file) :
        LET ld == load_search_adapters(file, lo)
        IN  Start("unified", ld, source_chain(ld.cfg), "no primary/fallback source configured")

\* the effects of one pass of the loop, `a` being what the pass did
Step(a, prefix) ==
    /\ file' = a.file
    /\ cfg' = a.cfg
    /\ idx' = idx + 1
    /\ errors' = IF a.kind = "success" THEN errors ELSE Append(errors, a.record)
    /\ invoked' = IF a.network THEN Append(invoked, [id |-> a.id, ok |-> a.searchOk])
                  ELSE invoked
    /\ lastStep' = [id |-> a.id, kind |-> a.kind, err |-> a.err, save |-> a.save]
    /\ pc' = PcAfter(a.kind, idx + 1, Len(chain))
    /\ outcome' = CASE pc' = "returned" ->
                         [kind |-> "results", results |-> a.results, served |-> a.id]
                    [] pc' = "raised" ->
                         [kind |-> "error", message |-> prefix \o Join(errors')]
                    [] OTHER -> NoOutcome
    /\ configuredUntil' =
           IF a.rate
           THEN [configuredUntil EXCEPT
                    ![entry] = Put(@, a.id, clock + ConfiguredCooldownSeconds(file, a.id))]
           ELSE configuredUntil
    /\ UNCHANGED <<clock, entry, chain, now, lastOp, nSetters, nCalls, writers, payload>>

\* the answers that matter to a pass: the endpoint's answer when the request is sent,
\* the outcome of the save when the search succeeds, the official key for an official source
NetChoices(sent) == IF sent THEN NetOutcomes ELSE {"ok"}
SaveChoices(sent, net) == IF sent /\ net = "ok" THEN SaveOutcomes ELSE {"ok"}
KeyChoices(sid) == IF StartsWithOfficial(sid) THEN OfficialKeys ELSE {"bk"}

StepLegacy ==
    /\ pc = "walking"
    /\ entry = "legacy"
    /\ \E lo \in LoadOutcomes(file) :
       \E sent \in {LegacyStep(Candidate(chain, idx + 1), lo, "ok", "ok").network} :
       \E net \in NetChoices(sent) :
       \E so \in SaveChoices(sent, net) :
       \E a \in {LegacyStep(Candidate(chain, idx + 1), lo, net, so)} :
           /\ Step(a, "all providers failed: ")
           /\ cooldownUntil' = IF a.rate THEN Put(cooldownUntil, a.id, clock + a.seconds)
                               ELSE cooldownUntil
           /\ UNCHANGED sourceCooldownUntil

StepUnified ==
    /\ pc = "walking"
    /\ entry = "unified"
    /\ \E lo \in LoadOutcomes(file), key \in KeyChoices(Candidate(chain, idx + 1)) :
       \E sent \in {UnifiedStep(Candidate(chain, idx + 1), lo, key, "ok", "ok").network} :
       \E net \in NetChoices(sent) :
       \E so \in SaveChoices(sent, net) :
       \E a \in {UnifiedStep(Candidate(chain, idx + 1), lo, key, net, so)} :
           /\ Step(a, "all sources failed: ")
           /\ sourceCooldownUntil' =
                  IF a.rate THEN Put(sourceCooldownUntil, a.id, clock + a.seconds)
                  ELSE sourceCooldownUntil
           /\ UNCHANGED cooldownUntil

Next ==
    \/ Tick
    \/ SetActiveProvider
    \/ SetPrimaryProvider
    \/ SetFallbackProviders
    \/ SetPrimarySource
    \/ SetFallbackSources
    \/ UpdateProvider
    \/ StartLegacy
    \/ StartUnified
    \/ StepLegacy
    \/ StepUnified

Spec == Init /\ [][Next]_vars

\* ---------------------------------------------------------------- properties
\* the `source` tag of the rows a candidate returns
SourceTag(id) == IF StartsWithAdapter(id) THEN AdapterPart(id) ELSE id

InCall == pc \in {"walking", "returned", "raised"}

\* C1: in both entry points the candidates are gone through in chain order, and the
\* first candidate whose search succeeds ends the call: its rows are returned and no
\* later candidate is attempted.
C1_ChainOrderFirstSuccessReturns ==
    InCall =>
        /\ idx > 0 => lastStep.id = chain[idx]
        /\ \A j, k \in 1..Len(invoked) :
               j < k => \E a, b \in 1..Len(chain) :
                            a < b /\ chain[a] = invoked[j].id /\ chain[b] = invoked[k].id
        /\ \A j \in 1..Len(invoked) :
               invoked[j].ok =>
                   /\ j = Len(invoked)
                   /\ pc = "returned"
                   /\ outcome.served = invoked[j].id
                   /\ outcome.results = ResultsOf(SourceTag(invoked[j].id))
        /\ pc = "returned" => outcome.served = chain[idx] /\ idx = Len(errors) + 1

\* a call that failed over: the first candidate's search failed, the second one served
C1_Witness ==
    /\ pc = "returned"
    /\ Len(chain) = 2
    /\ Len(invoked) = 2
    /\ ~invoked[1].ok
    /\ outcome.served = chain[2]

\* C2: a call sends at most one request per chain candidate, so at most Len(chain)
\* requests, and it always ends: while it is under way a next pass is possible, and
\* after at most Len(chain) passes it has returned rows or raised an error.
C2_AtMostOneAttemptPerCandidate ==
    InCall =>
        /\ \A j, k \in 1..Len(invoked) : j # k => invoked[j].id # invoked[k].id
        /\ \A j \in 1..Len(invoked) : invoked[j].id \in Range(chain)
        /\ Len(invoked) <= Len(chain)
        /\ idx <= Len(chain)
        /\ pc = "walking" => idx < Len(chain) /\ ENABLED (StepLegacy \/ StepUnified)
        /\ pc # "walking" => outcome.kind \in {"results", "error"}

\* every candidate of a chain of two was attempted, failed, and the call raised
C2_Witness ==
    /\ pc = "raised"
    /\ Len(chain) = 2
    /\ Len(invoked) = 2
    /\ outcome.kind = "error"

\* the cooldown map of the call's entry point
CooldownMap == IF entry = "legacy" THEN cooldownUntil ELSE sourceCooldownUntil

\* the step is one pass of the loop, over the candidate chain[idx + 1]
PassTaken == pc = "walking" /\ idx' = idx + 1

\* where the walk stands when it proceeds to the next candidate
Proceeds == pc' = IF idx' < Len(chain) THEN "walking" ELSE "raised"

\* C3: a candidate whose search raised a rate-limit error is skipped by every call
\* through the same entry point that starts less than its cooldownSeconds (the value
\* stored for it in the file, 60 when none is) after the failure.
C3_SkippedForItsCooldownSeconds ==
    [][(PassTaken /\ Len(invoked') = Len(invoked) + 1) =>
           ~(/\ chain[idx + 1] \in DOMAIN configuredUntil[entry]
             /\ now < configuredUntil[entry][chain[idx + 1]])]_vars

\* the stored expiry of candidate `id` is greater than the call's `now`
OnCooldown(id) == id \in DOMAIN CooldownMap /\ CooldownMap[id] > now

\* C4 as stated: a candidate on cooldown is recorded as "<id>:cooldown", no request is
\* sent for it, and the walk proceeds to the next candidate.
C4_CooldownRecorded ==
    [][(PassTaken /\ OnCooldown(chain[idx + 1])) =>
           /\ lastStep'.kind = "skipped"
           /\ errors' = Append(errors, chain[idx + 1] \o ":cooldown")
           /\ invoked' = invoked
           /\ Proceeds]_vars

\* the record search_with_failover gives a candidate it skips
LegacySkipReason(id) ==
    IF ~cfg.providers[id].enabled THEN "disabled"
    ELSE IF cfg.providers[id].apiKey = "" THEN "missing-key"
    ELSE "cooldown"

\* C4 as amended: a candidate on cooldown is skipped without a request and the walk
\* proceeds; its record is "<id>:cooldown", except that search_with_failover records a
\* disabled candidate as "<id>:disabled" and a key-less one as "<id>:missing-key".
C4_CooldownSkipped ==
    [][(PassTaken /\ OnCooldown(chain[idx + 1])) =>
           /\ lastStep'.kind = "skipped"
           /\ errors' = Append(errors, chain[idx + 1] \o ":" \o
                               (IF entry = "legacy" THEN LegacySkipReason(chain[idx + 1])
                                ELSE "cooldown"))
           /\ invoked' = invoked
           /\ Proceeds]_vars

\* the first candidate of two was skipped as on cooldown and the walk went on
C4_Witness ==
    /\ pc = "walking"
    /\ idx = 1
    /\ Len(chain) = 2
    /\ errors = <<chain[1] \o ":cooldown">>
    /\ invoked = <<>>

\* the error texts of the model that hold one of the six markers, case-insensitively
MarkedErrorTexts == {"HTTP Error 429: Too Many Requests"}

SameExcept(d1, d2, id) ==
    \A k \in (DOMAIN d1 \cup DOMAIN d2) \ {id} : k \in DOMAIN d1 /\ k \in DOMAIN d2 /\ d1[k] = d2[k]

\* C5: a cooldown map changes only in a pass whose search failed with a
\* rate-limit-classified error, and then only in the entry of that candidate; a
\* skip, a success or any other failure leaves both maps as they were.
C5_OnlyRateLimitChangesCooldown ==
    [][(cooldownUntil' # cooldownUntil \/ sourceCooldownUntil' # sourceCooldownUntil) =>
           /\ PassTaken
           /\ lastStep'.kind = "failed"
           /\ lastStep'.err \in MarkedErrorTexts
           /\ SameExcept(cooldownUntil, cooldownUntil', lastStep'.id)
           /\ SameExcept(sourceCooldownUntil, sourceCooldownUntil', lastStep'.id)]_vars

\* a candidate failed with a 429 and got its cooldown entry
C5_Witness ==
    /\ InCall
    /\ lastStep.kind = "failed"
    /\ lastStep.err \in MarkedErrorTexts
    /\ lastStep.id \in DOMAIN CooldownMap
    /\ CooldownMap[lastStep.id] > now

\* C6: search_with_unified_failover sends no request for an adapter whose entry is
\* disabled or has no apiKey; it records "<id>:disabled" or "<id>:missing-key".
C6_UnifiedSkipsDisabledAndKeyless ==
    (InCall /\ entry = "unified") =>
        /\ \A j \in 1..Len(invoked) :
               (StartsWithAdapter(invoked[j].id) /\ AdapterPart(invoked[j].id) \in ADAPTER_SPECS) =>
                   /\ cfg.providers[AdapterPart(invoked[j].id)].enabled
                   /\ cfg.providers[AdapterPart(invoked[j].id)].apiKey # ""
        /\ \A i \in 1..Len(errors) :
               (StartsWithAdapter(chain[i]) /\ AdapterPart(chain[i]) \in ADAPTER_SPECS) =>
                   /\ ~cfg.providers[AdapterPart(chain[i])].enabled =>
                          errors[i] = chain[i] \o ":disabled"
                   /\ (/\ cfg.providers[AdapterPart(chain[i])].enabled
                       /\ cfg.providers[AdapterPart(chain[i])].apiKey = "") =>
                          errors[i] = chain[i] \o ":missing-key"

\* every reason a record can carry
Reasons ==
    {"disabled", "missing-key", "cooldown", "missing api key", "missing base url",
     "invalid source", "official:brave missing api key"}
    \cup (NetOutcomes \ {"ok"})
    \cup {"unsupported provider: " \o p : p \in PidTexts}
    \cup {"unsupported official source for failover: " \o sid : sid \in OFFICIAL_SEARCH_SOURCES}

\* the records joined by " | ", built from the last record backwards
RECURSIVE BarJoined(_)
BarJoined(rs) ==
    IF Len(rs) = 1 THEN rs[1]
    ELSE BarJoined(SubSeq(rs, 1, Len(rs) - 1)) \o " | " \o rs[Len(rs)]

\* C7: when no candidate of a non-empty chain succeeds the call raises an error whose
\* message holds one record "<id>:<reason>" per chain candidate, in chain order,
\* joined by " | "; it is raised only once every candidate was skipped or has failed.
C7_AggregateErrorListsEveryCandidate ==
    (pc = "raised" /\ chain # <<>>) =>
        /\ idx = Len(chain)
        /\ Len(errors) = Len(chain)
        /\ \A i \in 1..Len(chain) : \E reason \in Reasons : errors[i] = chain[i] \o ":" \o reason
        /\ \A j \in 1..Len(invoked) : ~invoked[j].ok
        /\ outcome.kind = "error"
        /\ outcome.message \in {"all providers failed: " \o BarJoined(errors),
                                "all sources failed: " \o BarJoined(errors)}

\* a chain of two was exhausted: the first candidate skipped, the second failed
C7_Witness ==
    /\ pc = "raised"
    /\ Len(chain) = 2
    /\ errors[1] = chain[1] \o ":cooldown"
    /\ Len(invoked) = 1
    /\ outcome.message = "all providers failed: " \o errors[1] \o " | " \o errors[2]

\* the configuration a load of the file yields
Persisted == load_search_adapters(file, "ok").cfg

C9_SaveFailureStillReturns ==
    (InCall /\ Len(invoked) > 0 /\ invoked[Len(invoked)].ok /\ lastStep.save = "failed") =>
        /\ pc = "returned"
        /\ outcome.kind = "results"
        /\ outcome.served = invoked[Len(invoked)].id
        /\ outcome.results = ResultsOf(SourceTag(outcome.served))

\* a search succeeded and the write of the active marker failed
C9_Witness ==
    /\ pc = "returned"
    /\ lastStep.save = "failed"
    /\ outcome.kind = "results"
    /\ Persisted.active # SourceTag(outcome.served)

\* C10: a setter called with an id that is no known adapter id or source id returns
\* False and leaves the file as it was.
C10_UnknownIdRejected ==
    [][(nSetters' = nSetters + 1 /\ lastOp'.unknown) =>
           (lastOp'.ret = FALSE /\ file' = file)]_vars

\* the source ids a configuration may store: none, an official source, or the source
\* of a known adapter
KnownSourceIds == {""} \cup OFFICIAL_SEARCH_SOURCES \cup {AdapterSource(p) : p \in ADAPTER_SPECS}

\* C11: whatever setters were called, every source id the file stores in primarySource,
\* activeSource and fallbackSources is empty, a known official source, or "adapter:<id>"
\* with <id> a known adapter id.
C11_StoredSourceIdsKnown ==
    file.kind = "ok" =>
        /\ file.data.primarySource \in KnownSourceIds
        /\ file.data.activeSource \in KnownSourceIds
        /\ \A i \in 1..Len(file.data.fallbackSources) :
               file.data.fallbackSources[i] \in KnownSourceIds

\* C12: right after set_primary_provider or set_primary_source returned True, the
\* stored primary and primarySource are in sync: for every adapter id x,
\* primarySource = "adapter:x" exactly when primary = x.
C12_PrimaryFieldsInSync ==
    (lastOp.op \in {"set_primary_provider", "set_primary_source"} /\ lastOp.ret) =>
        /\ file.kind = "ok"
        /\ \A x \in ADAPTER_SPECS :
               file.data.primarySource = AdapterSource(x) <=> file.data.primary = x

\* ---------------------------------------------------------------- the config store and
\* the chain resolvers on stored configurations of any content
\* topK and cooldownSeconds values below, within and above their ranges
TopKInputs == {0, 5, 25}
CooldownInputs == {3, 90}

\* the serper entry of a stored configuration, with and without cooldownSeconds
ProviderInputs ==
    {[DefaultProvider("serper") EXCEPT !.topK = k] : k \in TopKInputs}
    \cup {[DefaultProvider("serper") EXCEPT !.topK = k] @@ ("cooldownSeconds" :> s) :
             k \in TopKInputs, s \in CooldownInputs}

\* configurations handed to save_search_adapters and to the resolvers
ConfigInputs ==
    {[active |-> a, primary |-> p, fallbacks |-> fb, primarySource |-> ps,
      fallbackSources |-> fs, activeSource |-> "",
      providers |-> [default_config.providers EXCEPT !["serper"] = pr]] :
        a \in {"", "tavily"},
        p \in {"", "serper", "bogus"},
        fb \in {<<>>, <<"tavily", "serper">>, <<"tavily", "bogus", "tavily">>},
        ps \in {"", "official:brave", "adapter:serper"},
        fs \in {<<>>, <<"adapter:tavily", "official:brave", "adapter:tavily">>},
        pr \in ProviderInputs}

InitStore ==
    /\ file = FileAbsent
    /\ cfg \in ConfigInputs
    /\ pc = "input"
    /\ entry = "none"
    /\ chain = <<>>
    /\ lastStep = NoStep
    /\ cooldownUntil = <<>>
    /\ sourceCooldownUntil = <<>>
    /\ clock = 0
    /\ idx = 0
    /\ now = 0
    /\ errors = <<>>
    /\ outcome = NoOutcome
    /\ invoked = <<>>
    /\ lastOp = NoOp
    /\ configuredUntil = [e \in {"legacy", "unified"} |-> <<>>]
    /\ nSetters = 0
    /\ nCalls = 0
    /\ writers = NoWriters
    /\ payload = NoPayload

\* what the store and the resolvers leave alone
storeFrame ==
    <<cooldownUntil, sourceCooldownUntil, clock, idx, now, errors, outcome, invoked, lastOp,
      configuredUntil, nSetters, nCalls, writers, payload>>

\* save_search_adapters(cfg, path)
SaveInput ==
    /\ pc = "input"
    /\ \E so \in SaveOutcomes :
       \E sv \in {save_search_adapters(cfg, file, so)} :
           /\ file' = sv.file
           /\ lastStep' = [id |-> "", kind |-> "save", err |-> "",
                           save |-> IF sv.ret THEN "ok" ELSE "failed"]
    /\ pc' = "saved"
    /\ UNCHANGED <<cfg, chain, entry>>
    /\ UNCHANGED storeFrame

\* cfg = load_search_adapters(path); `save` tells how the write of the defaults ended,
\* "none" when the file was read
LoadSaved ==
    /\ pc = "saved"
    /\ \E lo \in LoadOutcomes(file) :
       \E ld \in {load_search_adapters(file, lo)} :
           /\ cfg' = ld.cfg
           /\ file' = ld.file
           /\ lastStep' = [id |-> "", kind |-> "load", err |-> "",
                           save |-> IF file.kind = "ok" THEN "none"
                                    ELSE IF lo = "ok" THEN "ok" ELSE "failed"]
    /\ pc' = "loaded"
    /\ UNCHANGED <<chain, entry>>
    /\ UNCHANGED storeFrame

\* chain = _provider_chain(cfg)
ResolveProviders ==
    /\ pc \in {"input", "loaded"}
    /\ chain' = provider_chain(cfg)
    /\ entry' = "legacy"
    /\ pc' = "resolved"
    /\ UNCHANGED <<file, cfg, lastStep>>
    /\ UNCHANGED storeFrame

\* chain = _source_chain(cfg)
ResolveSources ==
    /\ pc \in {"input", "loaded"}
    /\ chain' = source_chain(cfg)
    /\ entry' = "unified"
    /\ pc' = "resolved"
    /\ UNCHANGED <<file, cfg, lastStep>>
    /\ UNCHANGED storeFrame

NextStore ==
    \/ SaveInput
    \/ LoadSaved
    \/ ResolveProviders
    \/ ResolveSources

SpecStore == InitStore /\ [][NextStore]_vars

\* a configuration whose top-level fields hold known ids only
ValidRouterConfig(c) ==
    /\ c.active \in ADAPTER_SPECS \cup {""}
    /\ c.primary \in ADAPTER_SPECS \cup {""}
    /\ \A i \in 1..Len(c.fallbacks) : c.fallbacks[i] \in ADAPTER_SPECS
    /\ c.primarySource \in KnownSourceIds
    /\ c.activeSource \in KnownSourceIds
    /\ \A i \in 1..Len(c.fallbackSources) : c.fallbackSources[i] \in KnownSourceIds \ {""}

\* a provider entry with topK in [1,20] and, when it has one, cooldownSeconds in [5,3600]
ClampProvider(p) ==
    LET q == [p EXCEPT !.topK = Clamp(MinTopK, MaxTopK, p.topK)]
    IN  IF "cooldownSeconds" \in DOMAIN p
        THEN [q EXCEPT !["cooldownSeconds"] =
                           Clamp(MinCooldownSeconds, MaxCooldownSeconds, p["cooldownSeconds"])]
        ELSE q

Clamped(c) == [c EXCEPT !.providers = [pid \in DOMAIN c.providers |-> ClampProvider(c.providers[pid])]]

\* C13: a valid configuration that was saved and is then loaded from the same path
\* comes back equal to what was saved, with topK clamped to [1,20] and cooldownSeconds
\* to [5,3600].
C13_SaveThenLoadRoundTrip ==
    (pc = "loaded" /\ lastStep.save = "none" /\ ValidRouterConfig(file.data)) =>
        cfg = Clamped(file.data)

\* C14: the expiry a rate-limit failure gives a candidate is the failure time plus the
\* cooldownSeconds stored for its provider through update_provider, and the failure
\* time plus 60 when none is stored or the source is no adapter.
C14_ExpiryUsesConfiguredSeconds ==
    /\ cooldownUntil = configuredUntil["legacy"]
    /\ sourceCooldownUntil = configuredUntil["unified"]

\* the shape of the default configuration: the three adapter ids, each disabled, no
\* primary and no fallbacks
DefaultsShape(c) ==
    /\ DOMAIN c.providers = {"zhipu", "serper", "tavily"}
    /\ \A pid \in DOMAIN c.providers : ~c.providers[pid].enabled
    /\ c.primary = ""
    /\ c.fallbacks = <<>>

\* load_search_adapters has returned for a file that was absent or unreadable
LoadedUnreadable == pc = "loaded" /\ lastStep.kind = "load" /\ lastStep.save # "none"

\* C15 as stated: a load of an absent or unreadable file raises nothing, returns the
\* default configuration and leaves the defaults written to the path.
C15_LoadWritesDefaults ==
    LoadedUnreadable =>
        /\ cfg = default_config
        /\ DefaultsShape(cfg)
        /\ file = FileOf(default_config)

\* C15 as amended: the load raises nothing and returns the default configuration; the
\* path holds the defaults when their write succeeded, and stays absent or unreadable
\* when it failed.
C15_LoadReturnsDefaults ==
    LoadedUnreadable =>
        /\ cfg = default_config
        /\ DefaultsShape(cfg)
        /\ lastStep.save = "ok" => file = FileOf(default_config)
        /\ lastStep.save = "failed" => file.kind # "ok"

\* a load found no readable file, returned the defaults and wrote them
C15_Witness ==
    /\ LoadedUnreadable
    /\ lastStep.save = "ok"
    /\ cfg = default_config
    /\ file = FileOf(default_config)

\* `s` without the entries that occurred earlier in it
RECURSIVE KeepFirst(_)
KeepFirst(s) ==
    IF s = <<>> THEN <<>>
    ELSE LET front == KeepFirst(SubSeq(s, 1, Len(s) - 1))
         IN  IF s[Len(s)] \in Range(front) THEN front ELSE Append(front, s[Len(s)])

\* cfg.get("primary") or cfg.get("active")
LegacyPrimary(c) == IF c.primary # "" THEN c.primary ELSE c.active

\* C16: _source_chain returns primarySource when it is not empty, otherwise "adapter:"
\* followed by primary (active when primary is unset) when that is not empty; then
\* fallbackSources in order or, when that list is empty, the legacy fallbacks each
\* prefixed with "adapter:"; every id once, at its first place. Nothing but the chain
\* changes.
C16_SourceChainResolved ==
    [][(pc' = "resolved" /\ entry' = "unified") =>
           LET first == IF cfg.primarySource # "" THEN <<cfg.primarySource>>
                        ELSE IF LegacyPrimary(cfg) # ""
                        THEN <<"adapter:" \o LegacyPrimary(cfg)>>
                        ELSE <<>>
               rest == IF cfg.fallbackSources # <<>> THEN cfg.fallbackSources
                       ELSE [i \in 1..Len(cfg.fallbacks) |-> "adapter:" \o cfg.fallbacks[i]]
           IN  /\ chain' = KeepFirst(first \o rest)
               /\ UNCHANGED <<cfg, file, cooldownUntil, sourceCooldownUntil>>]_vars

\* the chain of a configuration with legacy fields only, whose active adapter is also
\* its first fallback
C16_Witness ==
    /\ pc = "resolved"
    /\ entry = "unified"
    /\ cfg.primarySource = ""
    /\ cfg.primary = ""
    /\ cfg.fallbackSources = <<>>
    /\ cfg.fallbacks = <<"tavily", "serper">>
    /\ chain = <<"adapter:tavily", "adapter:serper">>

\* C17: _provider_chain returns known adapter ids only, each once: primary (active
\* when primary is unset) first, then the fallbacks in their stored order without the
\* unknown ids and the ids already in the chain.
C17_ProviderChainResolved ==
    (pc = "resolved" /\ entry = "legacy") =>
        /\ \A i \in 1..Len(chain) : chain[i] \in ADAPTER_SPECS
        /\ \A i, j \in 1..Len(chain) : i # j => chain[i] # chain[j]
        /\ LegacyPrimary(cfg) \in ADAPTER_SPECS => chain # <<>> /\ chain[1] = LegacyPrimary(cfg)
        /\ chain = KeepFirst(SelectSeq(<<LegacyPrimary(cfg)>> \o cfg.fallbacks, IsAdapterId))

\* a chain whose stored fallbacks held an unknown id and the same id twice
C17_Witness ==
    /\ pc = "resolved"
    /\ entry = "legacy"
    /\ cfg.primary = "serper"
    /\ cfg.fallbacks = <<"tavily", "bogus", "tavily">>
    /\ chain = <<"serper", "tavily">>

\* nothing but its cooldown keeps the loop from attempting candidate `id`
OtherwiseEligible(id) ==
    entry = "legacy" => cfg.providers[id].enabled /\ cfg.providers[id].apiKey # ""

\* C18: no step removes an entry of a cooldown map, and an entry whose expiry is not
\* greater than the call's `now` has no effect: the candidate, if otherwise eligible,
\* is attempted again.
C18_ExpiredCooldownIsInert ==
    [][/\ DOMAIN cooldownUntil \subseteq DOMAIN cooldownUntil'
       /\ DOMAIN sourceCooldownUntil \subseteq DOMAIN sourceCooldownUntil'
       /\ (/\ PassTaken
           /\ chain[idx + 1] \in DOMAIN CooldownMap
           /\ CooldownMap[chain[idx + 1]] <= now
           /\ OtherwiseEligible(chain[idx + 1])) =>
              /\ lastStep'.kind \in {"success", "failed"}
              /\ lastStep'.err # "cooldown"
              /\ entry = "legacy" => Len(invoked') = Len(invoked) + 1]_vars

\* a candidate that was rate-limited earlier served a call that started at its expiry
C18_Witness ==
    /\ pc = "returned"
    /\ outcome.served \in DOMAIN CooldownMap
    /\ CooldownMap[outcome.served] > 0
    /\ CooldownMap[outcome.served] = now

\* ---------------------------------------------------------------- writers on one path
\* Processes that share `path` and run one mutating operation each. An operation is
\* the sequence load_search_adapters, a change of the loaded dict, save_search_adapters;
\* the save is open(path, "w"), which empties the file, then json.dump, which writes the
\* text from offset 0. Nothing orders the steps of two processes.
Writers == {"w1", "w2"}

\* the operations a process runs: two setters and the active marker of a failover call
WriterOps ==
    {[op |-> "update_provider", id |-> "serper"],
     [op |-> "set_primary_source", id |-> "official:brave"],
     [op |-> "mark_active", id |-> "adapter:tavily"]}

\* the dict the operation hands to save_search_adapters, from the dict `c` it loaded
Mutate(o, c) ==
    CASE o.op = "update_provider" ->
             [c EXCEPT !.providers[o.id] = ApplyUpdates(@, [enabled |-> FALSE])]
      [] o.op = "set_primary_source" ->
             set_primary_source(o.id, FileOf(c), "ok", "ok").file.data
      [] o.op = "mark_active" -> MarkAdapterSource(c, o.id)

\* a process before its first step
NewWriter(o) ==
    [pc |-> "start", op |-> o, cfg |-> default_config, ret |-> FALSE,
     sawUnreadable |-> FALSE, emptySinceOpen |-> FALSE]

InitWriters ==
    /\ file \in InitFiles
    /\ writers \in {[proc |-> p, last |-> "none"] : p \in [Writers -> {NewWriter(o) : o \in WriterOps}]}
    /\ cooldownUntil = <<>>
    /\ sourceCooldownUntil = <<>>
    /\ clock = 0
    /\ pc = "idle"
    /\ entry = "none"
    /\ cfg = default_config
    /\ chain = <<>>
    /\ idx = 0
    /\ now = 0
    /\ errors = <<>>
    /\ outcome = NoOutcome
    /\ invoked = <<>>
    /\ lastStep = NoStep
    /\ lastOp = NoOp
    /\ configuredUntil = [e \in {"legacy", "unified"} |-> <<>>]
    /\ nSetters = 0
    /\ nCalls = 0
    /\ payload = NoPayload

writersFrame ==
    <<cooldownUntil, sourceCooldownUntil, clock, pc, entry, cfg, chain, idx, now, errors,
      outcome, invoked, lastStep, lastOp, configuredUntil, nSetters, nCalls, payload>>

\* the processes whose file is open for writing, other than w, see text arrive in it
OthersSeeText(p, w) ==
    [u \in Writers |->
        IF u # w /\ p[u].pc = "writing" THEN [p[u] EXCEPT !.emptySinceOpen = FALSE] ELSE p[u]]

\* cfg = load_search_adapters(path): an absent or unreadable file is answered with the
\* defaults, which are written to the path
WLoad(w) ==
    /\ writers.proc[w].pc = "start"
    /\ \E ld \in {load_search_adapters(file, "ok")} :
           /\ file' = ld.file
           /\ writers' =
                  [writers EXCEPT
                      !.proc = [(IF file.kind = "ok" THEN @ ELSE OthersSeeText(@, w)) EXCEPT
                                   ![w] = [@ EXCEPT !.pc = "loaded", !.cfg = ld.cfg,
                                                    !.sawUnreadable = (file.kind = "corrupt")]]]
    /\ UNCHANGED writersFrame

\* open(path, "w"): the file is empty from now on, for every process that has it open
WOpen(w) ==
    /\ writers.proc[w].pc = "loaded"
    /\ file' = FileCorrupt
    /\ writers' =
           [writers EXCEPT
               !.proc = [u \in Writers |->
                            IF u = w
                            THEN [@[u] EXCEPT !.pc = "writing", !.emptySinceOpen = TRUE]
                            ELSE IF @[u].pc = "writing"
                            THEN [@[u] EXCEPT !.emptySinceOpen = TRUE]
                            ELSE @[u]]]
    /\ UNCHANGED writersFrame

\* what the file holds after json.dump wrote `text` from offset 0: the text, or, when
\* another process wrote a longer text since this one opened the file, the text followed
\* by the rest of the other one
Written(text, emptySinceOpen) ==
    IF emptySinceOpen THEN {FileOf(text)} ELSE {FileOf(text), FileCorrupt}

\* json.dump(cfg, f) and the close of the file; save_search_adapters returns True
WWrite(w) ==
    /\ writers.proc[w].pc = "writing"
    /\ file' \in Written(Mutate(writers.proc[w].op, writers.proc[w].cfg),
                         writers.proc[w].emptySinceOpen)
    /\ writers' =
           [writers EXCEPT
               !.proc = [OthersSeeText(@, w) EXCEPT ![w] = [@ EXCEPT !.pc = "done", !.ret = TRUE]],
               !.last = w]
    /\ UNCHANGED writersFrame

NextWriters == \E w \in Writers : WLoad(w) \/ WOpen(w) \/ WWrite(w)

SpecWriters == InitWriters /\ [][NextWriters]_vars

\* C19: a load never finds the file unreadable because of a save that is under way or
\* was cut short, so no save makes a load replace the stored configuration by the
\* defaults.
C19_LoadNeverReadsPartialWrite ==
    \A w \in Writers : ~writers.proc[w].sawUnreadable

\* every process has run its operation to the end
AllDone == \A w \in Writers : writers.proc[w].pc = "done"

\* C20: once two interleaved operations have both finished, the file is exactly the
\* dict the later save wrote: the snapshot its process loaded, with its own change
\* and without the change of the other process.
C20_LastWriterWins ==
    AllDone =>
        file = FileOf(Mutate(writers.proc[writers.last].op, writers.proc[writers.last].cfg))

\* the source id of the candidate `id` of entry point `e`: the legacy chain holds
\* adapter ids, the unified chain source ids
ServedSource(e, id) == IF e = "legacy" THEN AdapterSource(id) ELSE id

\* the step is a pass whose search succeeded and whose active marker was saved
PersistedSuccess == PassTaken /\ lastStep'.kind = "success" /\ lastStep'.save = "ok"

\* C21: the stored activeSource is the source id of the candidate that most recently
\* served a search: a search that succeeded through either entry point, and whose
\* save succeeded, leaves that id in the file, and a setter call that follows and
\* returns True leaves it there.
C21_ActiveSourceIsLastServed ==
    [][/\ PersistedSuccess =>
              /\ file'.kind = "ok"
              /\ file'.data.activeSource = ServedSource(entry, outcome'.served)
       /\ (/\ pc = "returned"
           /\ lastStep.save = "ok"
           /\ nSetters' = nSetters + 1
           /\ lastOp'.ret) =>
              /\ file'.kind = "ok"
              /\ file'.data.activeSource = ServedSource(entry, outcome.served)]_vars

\* ---------------------------------------------------------------- result normalization
\* A payload is the JSON object of the HTTP response, a function from its keys; a row
\* of one of its lists is a JSON object or, for NonDictItem, a string or a number.
MaxRows == 2

NonDictItem == [nondict |-> TRUE]

\* isinstance(item, dict)
IsDict(item) == "nondict" \notin DOMAIN item

\* d.get(k, "") or ""
Get(d, k) == IF k \in DOMAIN d THEN d[k] ELSE ""

\* a or b
Or(a, b) == IF a # "" THEN a ELSE b

\* payload.get(k, []) or []
Rows(d, k) == IF k \in DOMAIN d THEN d[k] ELSE <<>>

SearchRow(title, url, snippet, source) ==
    [title |-> title, url |-> url, snippet |-> snippet, source |-> source]

\* a normalizer without the filter on the url
KeepAllRows(out) == out

\* [x for x in out if x["url"]]
DropEmptyUrl(out) ==
    LET has_url(x) == x.url # ""
    IN  SelectSeq(out, has_url)

\* the rows were normalized
Normalized(out) == [ok |-> TRUE, rows |-> DropEmptyUrl(out), err |-> ""]

\* item.get on a row that is no dict
NoGet == [ok |-> FALSE, rows |-> <<>>, err |-> "'str' object has no attribute 'get'"]

\* _normalize_serper
normalize_serper(p) ==
    LET items == Rows(p, "organic")
    IN  IF \E i \in 1..Len(items) : ~IsDict(items[i]) THEN NoGet
        ELSE Normalized([i \in 1..Len(items) |->
                 SearchRow(Get(items[i], "title"), Get(items[i], "link"),
                           Get(items[i], "snippet"), "serper")])

\* _normalize_tavily
normalize_tavily(p) ==
    LET items == Rows(p, "results")
    IN  IF \E i \in 1..Len(items) : ~IsDict(items[i]) THEN NoGet
        ELSE Normalized([i \in 1..Len(items) |->
                 SearchRow(Get(items[i], "title"), Get(items[i], "url"),
                           Get(items[i], "content"), "tavily")])

\* _normalize_zhipu: the first of search_result, results, data that is a list (the
\* fields of the model's payloads, when present, are lists)
normalize_zhipu(p) ==
    LET candidates == IF "search_result" \in DOMAIN p THEN p["search_result"]
                      ELSE IF "results" \in DOMAIN p THEN p["results"]
                      ELSE Rows(p, "data")
        items == SelectSeq(candidates, IsDict)
    IN  Normalized([i \in 1..Len(items) |->
            SearchRow(Get(items[i], "title"),
                      Or(Get(items[i], "url"), Get(items[i], "link")),
                      Or(Get(items[i], "content"), Get(items[i], "snippet")), "zhipu")])

\* _normalize_brave
normalize_brave(p) ==
    LET web == IF "web" \in DOMAIN p THEN p["web"] ELSE <<>>
        items == SelectSeq(Rows(web, "results"), IsDict)
    IN  Normalized([i \in 1..Len(items) |->
            SearchRow(Get(items[i], "title"), Get(items[i], "url"),
                      Get(items[i], "description"), "official:brave")])

\* the normalizer behind a served candidate
Normalize(source, p) ==
    CASE source = "serper" -> normalize_serper(p)
      [] source = "tavily" -> normalize_tavily(p)
      [] source = "zhipu" -> normalize_zhipu(p)
      [] source = "official:brave" -> normalize_brave(p)

\* rows as the endpoints send them: with the url under "link", under "url", under
\* "link" next to an empty "url", without a url, and a row that is no object
ItemInputs ==
    {("title" :> "A") @@ ("link" :> "https://a.com") @@ ("snippet" :> "sa"),
     ("title" :> "B") @@ ("url" :> "https://b.com") @@ ("content" :> "cb"),
     ("title" :> "C") @@ ("url" :> "") @@ ("link" :> "https://c.com") @@ ("description" :> "dc"),
     ("title" :> "D") @@ ("url" :> "") @@ ("link" :> ""),
     NonDictItem}

RowInputs == UNION {[1..n -> ItemInputs] : n \in 0..MaxRows}

\* the list under each field a normalizer reads, a zhipu answer with two of its
\* fields, and the {"_raw": text} of an answer that is no JSON
PayloadInputs ==
    {(k :> r) : k \in {"organic", "results", "search_result", "data"}, r \in RowInputs}
    \cup {("web" :> ("results" :> r)) : r \in RowInputs}
    \cup {("search_result" :> r) @@ ("results" :> <<("title" :> "B") @@ ("url" :> "https://b.com")>>) :
             r \in RowInputs}
    \cup {("_raw" :> "not json")}

InitNormalize ==
    /\ payload \in PayloadInputs
    /\ pc = "answered"
    /\ file = SeededFile
    /\ cooldownUntil = <<>>
    /\ sourceCooldownUntil = <<>>
    /\ clock = 0
    /\ entry = "none"
    /\ cfg = default_config
    /\ chain = <<>>
    /\ idx = 0
    /\ now = 0
    /\ errors = <<>>
    /\ outcome = NoOutcome
    /\ invoked = <<>>
    /\ lastStep = NoStep
    /\ lastOp = NoOp
    /\ configuredUntil = [e \in {"legacy", "unified"} |-> <<>>]
    /\ nSetters = 0
    /\ nCalls = 0
    /\ writers = NoWriters

\* the tail of search_with_provider or search_with_official_source for `source`
\* (return _normalize_*(payload)); a failover entry point returns these rows as they
\* are, and records the error of a normalizer that raised
ReturnRows(source) ==
    /\ pc = "answered"
    /\ \E r \in {Normalize(source, payload)} :
           /\ pc' = IF r.ok THEN "returned" ELSE "raised"
           /\ outcome' = IF r.ok THEN [kind |-> "results", results |-> r.rows, served |-> source]
                         ELSE [kind |-> "error", message |-> r.err]
           /\ lastStep' = [id |-> source, kind |-> IF r.ok THEN "success" ELSE "failed",
                           err |-> r.err, save |-> "none"]
    /\ UNCHANGED <<file, cooldownUntil, sourceCooldownUntil, clock, entry, cfg, chain, idx, now,
                   errors, invoked, lastOp, configuredUntil, nSetters, nCalls, writers, payload>>

SerperRows == ReturnRows("serper")
TavilyRows == ReturnRows("tavily")
ZhipuRows == ReturnRows("zhipu")
BraveRows == ReturnRows("official:brave")

NextNormalize ==
    \/ SerperRows
    \/ TavilyRows
    \/ ZhipuRows
    \/ BraveRows

SpecNormalize == InitNormalize /\ [][NextNormalize]_vars

\* the list the normalizer of `source` reads in payload `p`
ListRead(source, p) ==
    CASE source = "serper" -> Rows(p, "organic")
      [] source = "tavily" -> Rows(p, "results")
      [] source = "zhipu" -> IF "search_result" \in DOMAIN p THEN p["search_result"]
                             ELSE IF "results" \in DOMAIN p THEN p["results"]
                             ELSE Rows(p, "data")
      [] source = "official:brave" -> IF "web" \in DOMAIN p THEN Rows(p["web"], "results") ELSE <<>>

\* the url a row is mapped to by the normalizer of `source`
MappedUrl(source, item) ==
    CASE ~IsDict(item) -> ""
      [] source = "serper" /\ IsDict(item) -> Get(item, "link")
      [] source = "zhipu" /\ IsDict(item) ->
             IF Get(item, "url") # "" THEN Get(item, "url") ELSE Get(item, "link")
      [] OTHER -> Get(item, "url")

\* the non-empty urls of the rows of `items`, in their order, built from the last row
\* backwards
RECURSIVE UrlsKept(_, _)
UrlsKept(source, items) ==
    IF items = <<>> THEN <<>>
    ELSE LET front == UrlsKept(source, SubSeq(items, 1, Len(items) - 1))
             u == MappedUrl(source, items[Len(items)])
         IN  IF u = "" THEN front ELSE Append(front, u)

\* C22: every row an adapter returns has a non-empty url and the adapter's source tag:
\* the rows whose mapped url is empty are dropped and the others keep their order.
C22_RowsHaveUrl ==
    pc = "returned" =>
        /\ \A i \in 1..Len(outcome.results) :
               /\ outcome.results[i].url # ""
               /\ outcome.results[i].source = outcome.served
        /\ [i \in 1..Len(outcome.results) |-> outcome.results[i].url]
               = UrlsKept(outcome.served, ListRead(outcome.served, payload))

\* zhipu answered with a row without url, then a row with its url under "link": one
\* row returned
C22_Witness ==
    /\ pc = "returned"
    /\ outcome.served = "zhipu"
    /\ "search_result" \in DOMAIN payload
    /\ Len(payload["search_result"]) = 2
    /\ MappedUrl("zhipu", payload["search_result"][1]) = ""
    /\ Len(outcome.results) = 1
    /\ outcome.results[1].url = "https://c.com"

\* ---------------------------------------------------------------- connectivity probe
\* isinstance(e, error.HTTPError), isinstance(e, error.URLError) on the error texts of
\* the model
IsHTTPError(err) == err = "HTTP Error 429: Too Many Requests"
IsURLError(err) == err = "<urlopen error timed out>" \/ IsHTTPError(err)

\* e.code, e.reason
HttpCode(err) == CASE err = "HTTP Error 429: Too Many Requests" -> "429"
UrlReason(err) == CASE err = "<urlopen error timed out>" -> "timed out"

\* a probe that catches HTTPError and URLError only
ProbeWithoutCatchAll(provider_id, f, lo, net) ==
    LET sr == search_with_provider(provider_id, f, lo, net)
    IN  IF sr.ok
        THEN [file |-> sr.file, ok |-> TRUE, raised |-> FALSE,
              message |-> "ok (" \o ToString(Len(sr.results)) \o " results)"]
        ELSE IF IsHTTPError(sr.err)
        THEN [file |-> sr.file, ok |-> FALSE, raised |-> FALSE,
              message |-> "http " \o HttpCode(sr.err)]
        ELSE IF IsURLError(sr.err)
        THEN [file |-> sr.file, ok |-> FALSE, raised |-> FALSE,
              message |-> "network error: " \o UrlReason(sr.err)]
        ELSE [file |-> sr.file, ok |-> FALSE, raised |-> TRUE, message |-> sr.err]

\* test_provider_connection: search_with_provider(provider_id, "OpenClaw", 3) inside a
\* try whose last clause is "except Exception"
test_provider_connection(provider_id, f, lo, net) ==
    LET sr == search_with_provider(provider_id, f, lo, net)
    IN  IF sr.ok
        THEN [file |-> sr.file, ok |-> TRUE, raised |-> FALSE,
              message |-> "ok (" \o ToString(Len(sr.results)) \o " results)"]
        ELSE IF IsHTTPError(sr.err)
        THEN [file |-> sr.file, ok |-> FALSE, raised |-> FALSE,
              message |-> "http " \o HttpCode(sr.err)]
        ELSE IF IsURLError(sr.err)
        THEN [file |-> sr.file, ok |-> FALSE, raised |-> FALSE,
              message |-> "network error: " \o UrlReason(sr.err)]
        ELSE [file |-> sr.file, ok |-> FALSE, raised |-> FALSE, message |-> sr.err]

\* the adapters probed: one with a key, one without, and an unknown id
ProbeTargets == {"serper", "zhipu", "bogus"}

\* a call of test_provider_connection between two failover calls; lastOp keeps what
\* the endpoint answered ("none" when no request was sent) and what the probe returned
TestProviderConnection ==
    /\ pc # "walking"
    /\ \E p \in ProbeTargets, lo \in LoadOutcomes(file) :
       \E sent \in {search_with_provider(p, file, lo, "ok").network} :
       \E net \in NetChoices(sent) :
       \E r \in {test_provider_connection(p, file, lo, net)} :
           /\ file' = r.file
           /\ lastOp' = [op |-> "test_provider_connection", unknown |-> UnknownAdapterId(p),
                         ret |-> r.ok, message |-> r.message, raised |-> r.raised,
                         id |-> p, net |-> IF sent THEN net ELSE "none"]
    /\ UNCHANGED <<cooldownUntil, sourceCooldownUntil, clock, configuredUntil, nSetters, nCalls,
                   writers, payload>>
    /\ UNCHANGED callVars

NextProbe ==
    \/ Tick
    \/ StartLegacy
    \/ StartUnified
    \/ StepLegacy
    \/ StepUnified
    \/ TestProviderConnection

SpecProbe == Init /\ [][NextProbe]_vars

\* the latest operation was a probe
Probed == lastOp.op = "test_provider_connection"

\* C23: test_provider_connection leaves both cooldown maps as they were and raises
\* nothing: it returns (True, "ok (<n> results)") when the adapter call succeeded, and
\* (False, a message) after an HTTP-status error, rate-limit errors included, after a
\* network error and after any other error.
C23_ProbeLeavesCooldownAlone ==
    [][(Probed' /\ clock' = clock) =>
           /\ cooldownUntil' = cooldownUntil
           /\ sourceCooldownUntil' = sourceCooldownUntil
           /\ ~lastOp'.raised
           /\ lastOp'.net = "ok" =>
                  lastOp'.ret /\ lastOp'.message = "ok (1 results)"
           /\ lastOp'.net # "ok" => ~lastOp'.ret /\ lastOp'.message # ""
           /\ lastOp'.net = "HTTP Error 429: Too Many Requests" => lastOp'.message = "http 429"
           /\ lastOp'.net = "<urlopen error timed out>" =>
                  lastOp'.message = "network error: timed out"]_vars

\* serper was probed and answered 429 while it was on cooldown; the probe returned
\* False and the cooldown entry is the one the failover call had set
C23_Witness ==
    /\ Probed
    /\ lastOp.id = "serper"
    /\ lastOp.net = "HTTP Error 429: Too Many Requests"
    /\ ~lastOp.ret
    /\ "serper" \in DOMAIN cooldownUntil
    /\ cooldownUntil["serper"] = 60
    /\ clock = 0
    /\ "serper" \notin DOMAIN sourceCooldownUntil

\* the step is the head of a failover call
CallStarts == nCalls' = nCalls + 1

\* C24: a failover call whose resolved chain is empty fails at once, with the error
\* "no primary/fallback source configured" for search_with_unified_failover: no
\* candidate is gone through, no request is sent and both cooldown maps stay as they
\* were.
C24_EmptyChainFailsAtOnce ==
    [][(CallStarts /\ chain' = <<>>) =>
           /\ pc' = "raised"
           /\ outcome'.kind = "error"
           /\ entry' = "unified" => outcome'.message = "no primary/fallback source configured"
           /\ idx' = 0
           /\ errors' = <<>>
           /\ invoked' = <<>>
           /\ cooldownUntil' = cooldownUntil
           /\ sourceCooldownUntil' = sourceCooldownUntil]_vars

\* a unified call found no chain in a file that had become unreadable, while serper
\* was on cooldown from the call before
C24_Witness ==
    /\ pc = "raised"
    /\ entry = "unified"
    /\ chain = <<>>
    /\ outcome.message = "no primary/fallback source configured"
    /\ invoked = <<>>
    /\ "serper" \in DOMAIN cooldownUntil

\* ---------------------------------------------------------------- routing on stored
\* configurations that setter calls have built
\* the seeded file after update_provider("serper", {"cooldownSeconds": 90})
CooldownFile == update_provider("serper", [cooldownSeconds |-> 90], SeededFile, "ok", "ok").file

\* serper and tavily enabled with a key, no primary, tavily then serper as fallbacks
FallbacksOnlyFile ==
    LET f1 == update_provider("serper", [enabled |-> TRUE, apiKey |-> "k"],
                              FileAbsent, "ok", "ok").file
        f2 == update_provider("tavily", [enabled |-> TRUE, apiKey |-> "k"], f1, "ok", "ok").file
    IN  set_fallback_providers(<<"tavily", "serper">>, f2, "ok", "ok").file

RoutingFiles == {SeededFile, CooldownFile, FallbacksOnlyFile}

FailoverPrimaryInputs == {"", "official:brave", "adapter:zhipu"}
FailoverFallbackInputs == {<<>>, <<"Adapter:Tavily", "", "adapter:tavily", "official:brave">>}

\* set_search_failover_api of the web front end: both setters are called, the second
\* one whatever the first returned; `ret` tells whether the handler answered 200
set_search_failover_api(primarySource, fallbackSources, f, so1, so2) ==
    LET primary == StripLower(primarySource)
        fallbacks == SelectSeq(StripLowerAll(fallbackSources), NonEmpty)
        ok_primary == set_primary_source(primary, f, "ok", so1)
        ok_fallback == set_fallback_sources(fallbacks, ok_primary.file, "ok", so2)
    IN  [file |-> ok_fallback.file, ret |-> ok_primary.ret /\ ok_fallback.ret, raised |-> FALSE]

InitRouting ==
    /\ file \in RoutingFiles
    /\ cooldownUntil = <<>>
    /\ sourceCooldownUntil = <<>>
    /\ clock = 0
    /\ pc = "idle"
    /\ entry = "none"
    /\ cfg = default_config
    /\ chain = <<>>
    /\ idx = 0
    /\ now = 0
    /\ errors = <<>>
    /\ outcome = NoOutcome
    /\ invoked = <<>>
    /\ lastStep = NoStep
    /\ lastOp = NoOp
    /\ configuredUntil = [e \in {"legacy", "unified"} |-> <<>>]
    /\ nSetters = 0
    /\ nCalls = 0
    /\ writers = NoWriters
    /\ payload = NoPayload

\* POST /api/search/failover on a readable file; lastOp keeps the request body
SetSearchFailover ==
    /\ pc # "walking"
    /\ nSetters < MaxSetterCalls
    /\ file.kind = "ok"
    /\ \E s \in FailoverPrimaryInputs, L \in FailoverFallbackInputs, so1, so2 \in SaveOutcomes :
       \E r \in {set_search_failover_api(s, L, file, so1, so2)} :
           /\ file' = r.file
           /\ lastOp' = [op |-> "set_search_failover_api", unknown |-> FALSE, ret |-> r.ret,
                         primarySource |-> s, fallbackSources |-> L]
    /\ nSetters' = nSetters + 1
    /\ pc' = "idle"
    /\ entry' = "none"
    /\ cfg' = default_config
    /\ chain' = <<>>
    /\ idx' = 0
    /\ now' = 0
    /\ errors' = <<>>
    /\ outcome' = NoOutcome
    /\ invoked' = <<>>
    /\ lastStep' = NoStep
    /\ UNCHANGED <<cooldownUntil, sourceCooldownUntil, clock, configuredUntil, nCalls, writers,
                   payload>>

NextRouting ==
    \/ SetActiveProvider
    \/ UpdateProvider
    \/ SetSearchFailover
    \/ StartLegacy
    \/ StartUnified
    \/ StepLegacy
    \/ StepUnified

SpecRouting == InitRouting /\ [][NextRouting]_vars

\* the fields of stored entry `p` outside `named` are in entry `q` with the same value
OtherFieldsKept(p, q, named) ==
    \A k \in DOMAIN p \ named : k \in DOMAIN q /\ q[k] = p[k]

\* C25: update_provider changes only the fields named in its updates, in the entry of
\* its provider, and set_active_provider changes no entry: every other stored provider
\* field, a stored cooldownSeconds included, has its value of before in the
\* configuration loaded after the call.
C25_OtherProviderFieldsKept ==
    [][(/\ nSetters' = nSetters + 1
        /\ lastOp'.op \in {"update_provider", "set_active_provider"}
        /\ lastOp'.ret
        /\ file.kind = "ok") =>
           /\ file'.kind = "ok"
           /\ \A pid \in ADAPTER_SPECS :
                  IF lastOp'.op = "update_provider" /\ pid \in UpdateTargets
                  THEN \E u \in UpdateInputs :
                           OtherFieldsKept(file.data.providers[pid],
                                           Persisted'.providers[pid], DOMAIN u)
                  ELSE OtherFieldsKept(file.data.providers[pid],
                                       Persisted'.providers[pid], {})]_vars

\* the chain the next call through the same entry point resolves from the file
NextChain ==
    IF entry = "legacy" THEN provider_chain(Persisted) ELSE source_chain(Persisted)

\* C27: a search that succeeded, and whose active marker was saved, leaves the chain
\* as it was: the next failover call resolves the same candidates in the same order
\* as the call that was served.
C27_SuccessKeepsChain ==
    (pc = "returned" /\ lastStep.save = "ok") => NextChain = chain

\* the handler's chain: the primary when it is not empty, then the fallbacks, each
\* id once
RequestedChain(s, L) ==
    KeepFirst((IF StripLower(s) # "" THEN <<StripLower(s)>> ELSE <<>>)
              \o SelectSeq(StripLowerAll(L), NonEmpty))

\* C28: after set_primary_source(s) and set_fallback_sources(L) both returned True,
\* the chain of the next search_with_unified_failover call is s, when it is not
\* empty, followed by the distinct entries of L in order, whatever the legacy fields
\* held; with L empty the chain holds no fallback.
C28_UnifiedChainIsWhatWasSet ==
    [][(/\ lastOp.op = "set_search_failover_api"
        /\ lastOp.ret
        /\ CallStarts
        /\ entry' = "unified") =>
           chain' = RequestedChain(lastOp.primarySource, lastOp.fallbackSources)]_vars

\* candidate `id` of search_with_failover is enabled, has a key and is not on cooldown
LegacyEligible(id) ==
    /\ cfg.providers[id].enabled
    /\ cfg.providers[id].apiKey # ""
    /\ ~OnCooldown(id)

\* C26: search_with_failover sends a request for a candidate only when its provider
\* is enabled, has a non-empty apiKey and is not on cooldown; a candidate that is not
\* gets one skip record and no request: "<id>:disabled" when it is disabled, else
\* "<id>:missing-key" when it has no key, else "<id>:cooldown".
C26_LegacyEligibility ==
    [][(PassTaken /\ entry = "legacy") =>
           /\ Len(invoked') > Len(invoked) => LegacyEligible(chain[idx + 1])
           /\ ~LegacyEligible(chain[idx + 1]) =>
                  /\ invoked' = invoked
                  /\ lastStep'.kind = "skipped"
                  /\ Len(errors') = Len(errors) + 1
                  /\ errors'[Len(errors')] =
                         chain[idx + 1] \o ":" \o
                         (IF ~cfg.providers[chain[idx + 1]].enabled THEN "disabled"
                          ELSE IF cfg.providers[chain[idx + 1]].apiKey = "" THEN "missing-key"
                          ELSE "cooldown")]_vars

\* a candidate that was rate-limited and then disabled was recorded as disabled
C26_Witness ==
    /\ InCall
    /\ entry = "legacy"
    /\ lastStep.kind = "skipped"
    /\ lastStep.err = "disabled"
    /\ OnCooldown(lastStep.id)
    /\ invoked = <<>>

\* adapter `pid` was marked rate-limited through either entry point and its window
\* holds at the call's `now`
AdapterOnCooldown(pid) ==
    \/ (pid \in DOMAIN cooldownUntil /\ cooldownUntil[pid] > now)
    \/ (AdapterSource(pid) \in DOMAIN sourceCooldownUntil
           /\ sourceCooldownUntil[AdapterSource(pid)] > now)

\* the adapter behind candidate `id` of the call under way
AdapterOf(id) == IF entry = "legacy" THEN id ELSE AdapterPart(id)

\* C29: the cooldown of an adapter holds across the entry points: within the window,
\* an adapter that search_with_failover marked rate-limited is skipped as on cooldown
\* by search_with_unified_failover, as source "adapter:<id>", and one that
\* search_with_unified_failover marked is skipped by search_with_failover; no request
\* is sent for it.
C29_CooldownSharedAcrossEntryPoints ==
    [][(/\ PassTaken
        /\ entry = "unified" => StartsWithAdapter(chain[idx + 1])
        /\ AdapterOnCooldown(AdapterOf(chain[idx + 1]))) =>
           /\ lastStep'.kind = "skipped"
           /\ invoked' = invoked]_vars

\* the step belongs to a failover call: its head or one pass of its loop
CallStep == CallStarts \/ PassTaken

\* C30: a failover call that ends in an error, on a file that exists and is valid,
\* leaves the file as it was, active and activeSource included: none of its steps
\* writes to the file, and what a load returns after the error is what the call had
\* loaded.
C30_FailedCallKeepsFile ==
    [][/\ (CallStep /\ file.kind = "ok" /\ lastStep'.kind # "success") => file' = file
       /\ (CallStep /\ pc' = "raised") =>
              /\ \A j \in 1..Len(invoked') : ~invoked'[j].ok
              /\ file'.kind = "ok" => Persisted' = cfg']_vars

\* both candidates of the seeded chain failed and the file still names serper
C30_Witness ==
    /\ pc = "raised"
    /\ Len(chain) = 2
    /\ Len(invoked) = 2
    /\ file = SeededFile
    /\ file.data.active = "serper"
    /\ file.data.activeSource = "adapter:serper"

====
